---- MODULE Spec2Model ----
(***************************************************************************)
(* Model of transactions-to-notion: option validation, CSV parsing with    *)
(* bank-specific column mappings and the sequential upload loop.           *)
(*                                                                         *)
(* Two snapshots of the pipeline are modelled side by side:                *)
(*   main                           src/src/index.js    (process.exit)     *)
(*   validateAndUploadTransactions  src/unnamed/part_002 (throws)          *)
(* parseCSV, uploadToNotion and formatDateToISO are textually identical in *)
(* both and are modelled once.  parseCSV and uploadToNotion are exported   *)
(* and can also be called directly.                                        *)
(*                                                                         *)
(* JavaScript strings are TLA+ strings; an absent property (undefined) is  *)
(* a key outside the DOMAIN of the object.                                 *)
(***************************************************************************)
EXTENDS Integers, Sequences, FiniteSets, TLC

(***************************************************************************)
(* Bounds of the model                                                     *)
(***************************************************************************)
\* most rows the CSV stream emits in one pass
MaxRows == 2
\* most transactions handed to a direct call of uploadToNotion
MaxTx == 2
\* times the wall clock moves to the next day during a run
MaxTicks == 1
\* 'end' and 'error' signals one stream delivers, late ones included
MaxSignals == 2

(***************************************************************************)
(* String primitives of the JavaScript runtime                             *)
(***************************************************************************)
Upper == "ABCDEFGHIJKLMNOPQRSTUVWXYZ"
Lower == "abcdefghijklmnopqrstuvwxyz"

CharAt(s, i) == SubSeq(s, i, i)

\* one character lower-cased
LowerChar(c) ==
    IF \E k \in 1..Len(Upper) : CharAt(Upper, k) = c
    THEN CharAt(Lower, CHOOSE k \in 1..Len(Upper) : CharAt(Upper, k) = c)
    ELSE c

toLowerCase(s) ==
    LET lowered[n \in 0..Len(s)] ==
            IF n = 0 THEN "" ELSE lowered[n - 1] \o LowerChar(CharAt(s, n))
    IN lowered[Len(s)]

startsWith(s, p) == Len(s) >= Len(p) /\ SubSeq(s, 1, Len(p)) = p

\* String.prototype.includes
Contains(s, sub) ==
    \E i \in 1..(Len(s) - Len(sub) + 1) : SubSeq(s, i, i + Len(sub) - 1) = sub

\* includes comparing without regard to the case of letters
includesIgnoringCase(arr, x) == \E i \in DOMAIN arr : toLowerCase(arr[i]) = toLowerCase(x)

\* Array.prototype.includes (strict equality on strings)
includes(arr, x) == \E i \in DOMAIN arr : arr[i] = x

\* Array.prototype.join
RECURSIVE join(_, _)
join(arr, sep) ==
    IF Len(arr) = 0 THEN ""
    ELSE IF Len(arr) = 1 THEN arr[1]
    ELSE arr[1] \o sep \o join(Tail(arr), sep)

\* obj[key] is a truthy string: the key is present and its value is not ""
Truthy(obj, key) == key \in DOMAIN obj /\ obj[key] # ""

(***************************************************************************)
(* Constants of the program                                                *)
(***************************************************************************)
ALLOWED_PAYMENT_METHODS ==
    <<"Amex Platinum", "Apple Card", "Chase Freedom", "Chase Sapphire", "Chase Southwest">>
ALLOWED_USERS == <<"Alli", "Justin">>

BANK_MAPPINGS ==
    [chase |-> [transactionDate |-> "Transaction Date",
                description     |-> "Description",
                amount          |-> "Amount"],
     amex  |-> [transactionDate |-> "Date",
                description     |-> "Description",
                amount          |-> "Amount"],
     apple |-> [transactionDate |-> "Transaction Date",
                description     |-> "Merchant",
                amount          |-> "Amount (USD)"]]

(***************************************************************************)
(* Environment: the file system, the CSV files and the wall clock          *)
(***************************************************************************)
\* "statement.csv" and "export.csv" are regular files, "reports" is a
\* directory (fs.access succeeds on it, reading it fails), "missing.csv"
\* does not exist.
FileKind(path) ==
    IF path \in {"statement.csv", "export.csv"} THEN "file"
    ELSE IF path = "reports" THEN "dir"
    ELSE "missing"

\* fs.access(path) with the default mode F_OK: only existence is probed
fsAccess(path) == FileKind(path) # "missing"

Row(td, d, desc, m, amt, usd) ==
    [c \in {x \in {"Transaction Date", "Date", "Description", "Merchant", "Amount", "Amount (USD)"} :
              \/ x = "Transaction Date" /\ td # "-"
              \/ x = "Date" /\ d # "-"
              \/ x = "Description" /\ desc # "-"
              \/ x = "Merchant" /\ m # "-"
              \/ x = "Amount" /\ amt # "-"
              \/ x = "Amount (USD)" /\ usd # "-"} |->
        CASE c = "Transaction Date" -> td
          [] c = "Date" -> d
          [] c = "Description" -> desc
          [] c = "Merchant" -> m
          [] c = "Amount" -> amt
          [] c = "Amount (USD)" -> usd]

\* the rows csv() decodes: column name -> cell text ("-" above = no such column)
ChaseRow    == Row("2023-01-15", "-", "AMAZON.COM", "-", "-50.99", "-")
                 @@ ("Category" :> "Shopping") @@ ("Payment Method" :> "Apple Card")
ChaseBlank  == Row("2023-01-16", "-", "", "-", "-4.95", "-")
AmexRow     == Row("-", "01/15/2023", "WHOLE FOODS", "-", "75.32", "-")
AppleRow    == Row("2023-01-15", "-", "-", "NETFLIX", "-", "15.99")
NoDescRow   == Row("2023-02-01", "-", "-", "-", "12.00", "-")
NoAmountRow == Row("2023-02-02", "-", "UBER", "-", "-", "-")
OnlyAmount  == Row("-", "-", "-", "-", "Unknown", "-")
MemoRow     == ("Memo" :> "n/a")

\* the rows a file can hold
RowsOf(path) ==
    CASE path = "statement.csv" -> {ChaseRow}
      [] path = "export.csv" -> {ChaseRow, ChaseBlank, AmexRow, AppleRow, NoDescRow,
                                 NoAmountRow, OnlyAmount, MemoRow}
      [] OTHER -> {}

\* the wall clock (UTC): a calendar day
StartDay == [y |-> 2023, m |-> 12, d |-> 31]

DaysInMonth(y, m) ==
    IF m = 2 THEN (IF (y % 4 = 0 /\ y % 100 # 0) \/ y % 400 = 0 THEN 29 ELSE 28)
    ELSE IF m \in {4, 6, 9, 11} THEN 30 ELSE 31

NextDay(t) ==
    IF t.d < DaysInMonth(t.y, t.m) THEN [t EXCEPT !.d = t.d + 1]
    ELSE IF t.m < 12 THEN [t EXCEPT !.m = t.m + 1, !.d = 1]
    ELSE [y |-> t.y + 1, m |-> 1, d |-> 1]

Pad2(n) == IF n < 10 THEN "0" \o ToString(n) ELSE ToString(n)

\* Date.prototype.toISOString().split('T')[0] for years 1000..9999
toISODate(t) == ToString(t.y) \o "-" \o Pad2(t.m) \o "-" \o Pad2(t.d)

(***************************************************************************)
(* Inputs                                                                  *)
(***************************************************************************)
NoKeys == [k \in {} |-> ""]

\* an optional property: absent, or present with one of the values
Optional(key, values) == {NoKeys} \cup {key :> v : v \in values}

AllowedMethods == {ALLOWED_PAYMENT_METHODS[i] : i \in DOMAIN ALLOWED_PAYMENT_METHODS}

\* what commander hands over; --csv-file-path and --payment-method are
\* required options, the others may be absent
OptionObjects ==
    {("csvFilePath" :> p) @@ ("paymentMethod" :> m) @@ k @@ d @@ w @@ r :
        p \in {"statement.csv", "reports", "missing.csv"},
        m \in AllowedMethods \cup {"chase sapphire", "Unsupported Card"},
        k \in Optional("notionApiKey", {"", "secret-opt"}),
        d \in Optional("notionDatabaseId", {"db-opt"}),
        w \in Optional("whoAmI", {"Alli", "alli", "Bob"}),
        r \in Optional("dryRun", {TRUE})}

\* process.env after dotenv.config()
Environments ==
    {k @@ d @@ w :
        k \in Optional("NOTION_API_KEY", {"secret-env"}),
        d \in Optional("NOTION_DATABASE_ID", {"db-env"}),
        w \in Optional("WHO_AM_I", {"Justin"})}

\* the time zone of the process: TZ unset stands for a zone at or west of
\* Greenwich, "Asia/Tokyo" for one east of it
Zones == Optional("TZ", {"Asia/Tokyo"})

\* labels handed to a direct call of parseCSV
Labels ==
    AllowedMethods \cup {"chase sapphire", "CHASE", "AMEX Gold", "aPpLe Card", "Unsupported Card",
                         "Chas", "My Chase Card", "Visa", ""}

(***************************************************************************)
(* Option validation                                                       *)
(***************************************************************************)
\* options[key] || process.env[name], bound to the local `as` (absent = undefined)
OrEnvEnvFirst(o, key, e, name, as) ==
    IF Truthy(e, name) THEN as :> e[name]
    ELSE IF key \in DOMAIN o THEN as :> o[key]
    ELSE NoKeys

OrEnv(o, key, e, name, as) ==
    IF Truthy(o, key) THEN as :> o[key]
    ELSE IF name \in DOMAIN e THEN as :> e[name]
    ELSE NoKeys

\* the locals notionApiKey, notionDatabaseId and whoAmI
mergeConfig(o, e) ==
    OrEnv(o, "notionApiKey", e, "NOTION_API_KEY", "notionApiKey")
      @@ OrEnv(o, "notionDatabaseId", e, "NOTION_DATABASE_ID", "notionDatabaseId")
      @@ OrEnv(o, "whoAmI", e, "WHO_AM_I", "whoAmI")

MsgCsvNotFound(path) == "CSV file not found at path: " \o path
MsgApiKey ==
    "Notion API key is required. Provide it via --notion-api-key option or NOTION_API_KEY env var."
MsgDatabaseId ==
    "Notion database ID is required. Provide it via --notion-database-id option or NOTION_DATABASE_ID env var."
MsgWhoAmI == "WHO_AM_I is required. Provide it via --who-am-i option or WHO_AM_I env var."
MsgUser == "--who-am-i must be one of: " \o join(ALLOWED_USERS, ", ")
MsgMethod == "--payment-method must be one of: " \o join(ALLOWED_PAYMENT_METHODS, ", ")

\* checkConfig with the database ID checked before the API key
checkConfigDatabaseFirst(o, c) ==
    IF ~Truthy(c, "notionDatabaseId") THEN MsgDatabaseId
    ELSE IF ~Truthy(c, "notionApiKey") THEN MsgApiKey
    ELSE IF ~Truthy(c, "whoAmI") THEN MsgWhoAmI
    ELSE IF ~includes(ALLOWED_USERS, c["whoAmI"]) THEN MsgUser
    ELSE IF ~includes(ALLOWED_PAYMENT_METHODS, o["paymentMethod"]) THEN MsgMethod
    ELSE ""

\* checkConfig without the check of the payment method
checkConfigNoMethodCheck(o, c) ==
    IF ~Truthy(c, "notionApiKey") THEN MsgApiKey
    ELSE IF ~Truthy(c, "notionDatabaseId") THEN MsgDatabaseId
    ELSE IF ~Truthy(c, "whoAmI") THEN MsgWhoAmI
    ELSE IF ~includes(ALLOWED_USERS, c["whoAmI"]) THEN MsgUser
    ELSE ""

\* the checks that follow a successful fs.access, in the order of the code:
\* the message of the first failing one, "" when all pass
checkConfig(o, c) ==
    IF ~Truthy(c, "notionApiKey") THEN MsgApiKey
    ELSE IF ~Truthy(c, "notionDatabaseId") THEN MsgDatabaseId
    ELSE IF ~Truthy(c, "whoAmI") THEN MsgWhoAmI
    ELSE IF ~includes(ALLOWED_USERS, c["whoAmI"]) THEN MsgUser
    ELSE IF ~includes(ALLOWED_PAYMENT_METHODS, o["paymentMethod"]) THEN MsgMethod
    ELSE ""

\* the message of the first failing check of the validation, "" when all pass
validationError(o, e) ==
    IF ~fsAccess(o["csvFilePath"]) THEN MsgCsvNotFound(o["csvFilePath"])
    ELSE checkConfig(o, mergeConfig(o, e))

\* util.inspect of a string-valued property
Inspect(obj, key) == IF key \in DOMAIN obj THEN "'" \o obj[key] \o "'" ELSE "undefined"

\* console.log({notionApiKey, notionDatabaseId}) between the DEBUG markers
DebugLines(c) ==
    <<[to |-> "log", text |-> "DEBUG START"],
      [to |-> "log", text |-> "{ notionApiKey: " \o Inspect(c, "notionApiKey")
                               \o ", notionDatabaseId: " \o Inspect(c, "notionDatabaseId") \o " }"],
      [to |-> "log", text |-> "DEBUG END"]>>

(***************************************************************************)
(* parseCSV                                                                *)
(***************************************************************************)
\* resolveBank without the toLowerCase
resolveBankCaseSensitive(paymentMethod) ==
    IF startsWith(paymentMethod, "chase") THEN "chase"
    ELSE IF startsWith(paymentMethod, "amex") THEN "amex"
    ELSE IF startsWith(paymentMethod, "apple") THEN "apple"
    ELSE ""

\* resolveBank without the branch of the Apple card
resolveBankWithoutApple(paymentMethod) ==
    IF startsWith(toLowerCase(paymentMethod), "chase") THEN "chase"
    ELSE IF startsWith(toLowerCase(paymentMethod), "amex") THEN "amex"
    ELSE ""

\* the bank a payment method belongs to, "" when none (bank stays null)
resolveBank(paymentMethod) ==
    IF startsWith(toLowerCase(paymentMethod), "chase") THEN "chase"
    ELSE IF startsWith(toLowerCase(paymentMethod), "amex") THEN "amex"
    ELSE IF startsWith(toLowerCase(paymentMethod), "apple") THEN "apple"
    ELSE ""

MsgUnsupported(paymentMethod) ==
    "Unsupported payment method: " \o paymentMethod \o ". Cannot determine bank type."

\* parseCSVExecutor with `reject(...)` in place of `return reject(...)`
parseCSVExecutorNoReturn(filePath, paymentMethod) ==
    LET bank == resolveBank(paymentMethod) IN
    [bank |-> bank, rejects |-> bank = "",
     error |-> IF bank = "" THEN MsgUnsupported(paymentMethod) ELSE "",
     opens |-> <<filePath>>,
     logs |-> <<[to |-> "log", text |-> "Using " \o (IF bank = "" THEN "null" ELSE bank)
                  \o " field mappings for payment method: " \o paymentMethod]>>]

\* the synchronous body of the promise executor: what it settles, logs and opens
parseCSVExecutor(filePath, paymentMethod) ==
    LET bank == resolveBank(paymentMethod) IN
    IF bank = ""
    THEN [bank |-> "", rejects |-> TRUE, error |-> MsgUnsupported(paymentMethod),
          opens |-> <<>>, logs |-> <<>>]
    ELSE [bank |-> bank, rejects |-> FALSE, error |-> "",
          opens |-> <<filePath>>,
          logs |-> <<[to |-> "log", text |-> "Using " \o bank
                       \o " field mappings for payment method: " \o paymentMethod]>>]

\* data[column] || fallback
OrDefault(data, column, fallback) ==
    IF Truthy(data, column) THEN data[column] ELSE fallback

\* normalizeRow reading the amount from the description column
normalizeRowSwapped(data, fieldMappings, paymentMethod, t) ==
    [description   |-> OrDefault(data, fieldMappings.description, "Unknown"),
     amount        |-> OrDefault(data, fieldMappings.description, "0"),
     date          |-> OrDefault(data, fieldMappings.transactionDate, toISODate(t)),
     originalData  |-> data,
     paymentMethod |-> paymentMethod]

\* normalizeRow falling back to all three defaults when any column is missing
normalizeRowLinked(data, fieldMappings, paymentMethod, t) ==
    LET complete == /\ Truthy(data, fieldMappings.description)
                    /\ Truthy(data, fieldMappings.amount)
                    /\ Truthy(data, fieldMappings.transactionDate)
    IN [description   |-> IF complete THEN data[fieldMappings.description] ELSE "Unknown",
        amount        |-> IF complete THEN data[fieldMappings.amount] ELSE "0",
        date          |-> IF complete THEN data[fieldMappings.transactionDate] ELSE toISODate(t),
        originalData  |-> data,
        paymentMethod |-> paymentMethod]

\* normalizeRow leaving the default of the description to the uploader
normalizeRowNoDescriptionDefault(data, fieldMappings, paymentMethod, t) ==
    [description   |-> OrDefault(data, fieldMappings.description, ""),
     amount        |-> OrDefault(data, fieldMappings.amount, "0"),
     date          |-> OrDefault(data, fieldMappings.transactionDate, toISODate(t)),
     originalData  |-> data,
     paymentMethod |-> paymentMethod]

\* normalizeRow recording the resolved bank as the payment method
normalizeRowBankId(data, fieldMappings, paymentMethod, t) ==
    [description   |-> OrDefault(data, fieldMappings.description, "Unknown"),
     amount        |-> OrDefault(data, fieldMappings.amount, "0"),
     date          |-> OrDefault(data, fieldMappings.transactionDate, toISODate(t)),
     originalData  |-> data,
     paymentMethod |-> resolveBank(paymentMethod)]

\* the 'data' handler's normalizedTransaction, at wall-clock day t
normalizeRow(data, fieldMappings, paymentMethod, t) ==
    [description   |-> OrDefault(data, fieldMappings.description, "Unknown"),
     amount        |-> OrDefault(data, fieldMappings.amount, "0"),
     date          |-> OrDefault(data, fieldMappings.transactionDate, toISODate(t)),
     originalData  |-> data,
     paymentMethod |-> paymentMethod]

\* a promise that takes the last settlement it is given
SettleOverwrites(promise, settlement) == settlement

\* a promise settles once: resolve and reject of a settled promise do nothing
Settle(promise, settlement) == IF promise.state = "pending" THEN settlement ELSE promise

\* the 'data' handler of the legacy variant: only rows whose Payment Method
\* column equals the label are kept
onDataFiltered(st, data, bank, paymentMethod, t) ==
    IF "Payment Method" \in DOMAIN data /\ data["Payment Method"] = paymentMethod
    THEN [results |-> Append(st.results, normalizeRow(data, BANK_MAPPINGS[bank], paymentMethod, t)),
          promise |-> st.promise]
    ELSE st

\* a 'data' handler that resolves with the rows seen so far
onDataResolves(st, data, bank, paymentMethod, t) ==
    [results |-> Append(st.results, normalizeRow(data, BANK_MAPPINGS[bank], paymentMethod, t)),
     promise |-> Settle(st.promise, [state |-> "resolved", error |-> ""])]

\* the stream handlers, on st = [results, promise]: the results array and the
\* promise of the executor's resolve and reject
onData(st, data, bank, paymentMethod, t) ==
    [results |-> Append(st.results, normalizeRow(data, BANK_MAPPINGS[bank], paymentMethod, t)),
     promise |-> st.promise]

\* an 'end' handler that does not call resolve
onEndNoResolve(st) == st

onEnd(st) ==
    [results |-> st.results,
     promise |-> Settle(st.promise, [state |-> "resolved", error |-> ""])]

onError(st, message) ==
    [results |-> st.results,
     promise |-> Settle(st.promise, [state |-> "rejected", error |-> message])]

\* afterParse without the check for an empty result
afterParseNoEmptyCheck(n, dryRun) == IF dryRun THEN "dryRun" ELSE "upload"

\* afterParse without the dry-run branch
afterParseAlwaysUploads(n, dryRun) == IF n = 0 THEN "exit" ELSE "upload"

\* what follows the await of parseCSV, for n transactions: "exit" by
\* process.exit(0), the "dryRun" listing, or the "upload"
afterParse(n, dryRun) ==
    IF n = 0 THEN "exit" ELSE IF dryRun THEN "dryRun" ELSE "upload"

(***************************************************************************)
(* Numbers and dates of the JavaScript runtime                             *)
(***************************************************************************)
Digits == "0123456789"
IsDigit(c) == \E k \in 1..Len(Digits) : CharAt(Digits, k) = c
DigitVal(c) == (CHOOSE k \in 1..Len(Digits) : CharAt(Digits, k) = c) - 1

\* the index after the run of spaces of s that starts at i
SkipSpaces(s, i) ==
    CHOOSE k \in i..(Len(s) + 1) :
        /\ \A j \in i..(k - 1) : CharAt(s, j) = " "
        /\ k > Len(s) \/ CharAt(s, k) # " "

\* the index after the run of digits of s that starts at i
SkipDigits(s, i) ==
    CHOOSE k \in i..(Len(s) + 1) :
        /\ \A j \in i..(k - 1) : IsDigit(CharAt(s, j))
        /\ k > Len(s) \/ ~IsDigit(CharAt(s, k))

\* the value of a string of decimal digits
DecimalValue(ds) ==
    LET value[n \in 0..Len(ds)] ==
            IF n = 0 THEN 0 ELSE 10 * value[n - 1] + DigitVal(CharAt(ds, n))
    IN value[Len(ds)]

NaN == [nan |-> TRUE, cents |-> 0]

\* the element of a set of one
Only(S) == CHOOSE x \in S : TRUE

\* the number read from s with its sign at a, its digits from b up to c and
\* its fraction digits from c + 1 up to d
Scanned(s, a, b, c, d) ==
    LET neg == a <= Len(s) /\ CharAt(s, a) = "-"
        whole == SubSeq(s, b, c - 1)
        frac == IF d > c THEN SubSeq(s, c + 1, d - 1) ELSE ""
        hundredths == DecimalValue(SubSeq(frac \o "00", 1, 2))
        magnitude == 100 * DecimalValue(whole) + hundredths
    IN IF Len(whole) = 0 /\ Len(frac) = 0 THEN NaN
       ELSE [nan |-> FALSE, cents |-> IF neg THEN 0 - magnitude ELSE magnitude]

\* parseFloat(s): the longest prefix  [spaces] [sign] digits [. digits]  as a
\* number, NaN when there is none.  Numbers are exact in hundredths (cents);
\* fraction digits beyond the second and exponents are outside the inputs used.
parseFloat(s) ==
    Only({Only({Only({Only({Only({Scanned(t, a, b, c, d) :
        d \in {IF c <= Len(t) /\ CharAt(t, c) = "." THEN SkipDigits(t, c + 1) ELSE c}}) :
        c \in {SkipDigits(t, b)}}) :
        b \in {IF a <= Len(t) /\ CharAt(t, a) \in {"-", "+"} THEN a + 1 ELSE a}}) :
        a \in {SkipSpaces(t, 1)}}) :
        t \in {s}})

\* Math.abs
abs(n) == IF n.nan THEN NaN ELSE [nan |-> FALSE, cents |-> IF n.cents < 0 THEN 0 - n.cents ELSE n.cents]

\* Number.prototype.toFixed(2) of a non-negative number
toFixed2(n) ==
    IF n.nan THEN "NaN" ELSE ToString(n.cents \div 100) \o "." \o Pad2(n.cents % 100)

PrevDay(t) ==
    IF t.d > 1 THEN [t EXCEPT !.d = t.d - 1]
    ELSE IF t.m > 1 THEN [t EXCEPT !.m = t.m - 1, !.d = DaysInMonth(t.y, t.m - 1)]
    ELSE [y |-> t.y - 1, m |-> 12, d |-> 31]

AllDigits(s) == \A i \in 1..Len(s) : IsDigit(CharAt(s, i))

ValidDay(t) == t.m \in 1..12 /\ t.d \in 1..DaysInMonth(t.y, t.m)

\* new Date(dateString), as the UTC calendar day of the instant, for the two
\* notations of the bank exports; anything else is an Invalid Date.
\*   "YYYY-MM-DD"  date-only ISO form: midnight UTC of that day
\*   "MM/DD/YYYY"  legacy form: midnight local time, which is the day before
\*                 in UTC when the zone is east of Greenwich
newDate(dateString, e) ==
    LET s == dateString
        iso == /\ Len(s) = 10 /\ CharAt(s, 5) = "-" /\ CharAt(s, 8) = "-"
               /\ AllDigits(SubSeq(s, 1, 4) \o SubSeq(s, 6, 7) \o SubSeq(s, 9, 10))
        us  == /\ Len(s) = 10 /\ CharAt(s, 3) = "/" /\ CharAt(s, 6) = "/"
               /\ AllDigits(SubSeq(s, 1, 2) \o SubSeq(s, 4, 5) \o SubSeq(s, 7, 10))
        isoDay == [y |-> DecimalValue(SubSeq(s, 1, 4)), m |-> DecimalValue(SubSeq(s, 6, 7)),
                   d |-> DecimalValue(SubSeq(s, 9, 10))]
        usDay  == [y |-> DecimalValue(SubSeq(s, 7, 10)), m |-> DecimalValue(SubSeq(s, 1, 2)),
                   d |-> DecimalValue(SubSeq(s, 4, 5))]
        east == "TZ" \in DOMAIN e /\ e["TZ"] = "Asia/Tokyo"
    IN IF iso /\ ValidDay(isoDay) THEN [valid |-> TRUE, day |-> isoDay]
       ELSE IF us /\ ValidDay(usDay)
            THEN [valid |-> TRUE, day |-> IF east THEN PrevDay(usDay) ELSE usDay]
       ELSE [valid |-> FALSE, day |-> StartDay]

\* formatDateToISO: the YYYY-MM-DD text ("" for null) and the warning it logs
formatDateToISO(dateString, e) ==
    IF dateString = "" THEN [iso |-> "", warns |-> <<>>]
    ELSE LET date == newDate(dateString, e) IN
         IF ~date.valid
         THEN [iso |-> "",
               warns |-> <<[to |-> "warn", text |-> "Date parsing error for \"" \o dateString
                             \o "\": Invalid date: " \o dateString]>>]
         ELSE [iso |-> toISODate(date.day), warns |-> <<>>]

(***************************************************************************)
(* uploadToNotion                                                          *)
(***************************************************************************)
\* buildRequest with the card label alone, as before the whoAmI prefix was added
buildRequestNoPrefix(databaseId, transaction, whoAmI, t, e) ==
    LET formatted == formatDateToISO(OrDefault(transaction, "date", ""), e) IN
    [request |->
        [database_id   |-> databaseId,
         Date          |-> IF formatted.iso # "" THEN formatted.iso ELSE toISODate(t),
         Expense       |-> OrDefault(transaction, "description", "Unknown Transaction"),
         TotalAmount   |-> abs(parseFloat(OrDefault(transaction, "amount", "0"))),
         Status        |-> "Requires Audit",
         PaymentMethod |-> OrDefault(transaction, "paymentMethod", "Unknown Card")],
     warns |-> formatted.warns]

\* the argument of notionClient.pages.create for one transaction, and the
\* warnings its evaluation logs
buildRequest(databaseId, transaction, whoAmI, t, e) ==
    LET formatted == formatDateToISO(OrDefault(transaction, "date", ""), e) IN
    [request |->
        [database_id   |-> databaseId,
         Date          |-> IF formatted.iso # "" THEN formatted.iso ELSE toISODate(t),
         Expense       |-> OrDefault(transaction, "description", "Unknown Transaction"),
         TotalAmount   |-> abs(parseFloat(OrDefault(transaction, "amount", "0"))),
         Status        |-> "Requires Audit",
         PaymentMethod |-> whoAmI \o "'s " \o OrDefault(transaction, "paymentMethod", "Unknown Card")],
     warns |-> formatted.warns]

\* the line logged after a create call fulfilled (the emoji are left out)
UploadedLine(transaction, whoAmI) ==
    [to |-> "log",
     text |-> "Uploaded: " \o toFixed2(abs(parseFloat(OrDefault(transaction, "amount", "0"))))
              \o " | " \o OrDefault(transaction, "description", "Unknown")
              \o " | " \o OrDefault(transaction, "date", "No date")
              \o " | " \o whoAmI \o "'s "
              \o (IF "paymentMethod" \in DOMAIN transaction THEN transaction["paymentMethod"]
                  ELSE "undefined")]

\* the line logged by the catch block after a create call rejected
FailedLine(message) == [to |-> "error", text |-> "Failed to upload transaction: " \o message]

\* afterCreate with a catch block that rethrows
afterCreateRethrows(fulfilled, idx, n) ==
    IF ~fulfilled THEN "throw" ELSE IF idx < n THEN "next" ELSE "return"

\* afterCreate leaving the loop at the first failed call
afterCreateStopsOnFailure(fulfilled, idx, n) ==
    IF ~fulfilled THEN "return" ELSE IF idx < n THEN "next" ELSE "return"

\* what the loop does once the create call of transaction number idx of n has
\* settled (fulfilled or not): "next" iteration, "return", or "throw"
afterCreate(fulfilled, idx, n) == IF idx < n THEN "next" ELSE "return"

\* the lines of the dry-run listing
RECURSIVE DryRunLines(_, _)
DryRunLines(transactions, index) ==
    IF index > Len(transactions) THEN <<>>
    ELSE <<[to |-> "log",
            text |-> ToString(index) \o ". " \o OrDefault(transactions[index], "description", "Unknown")
                     \o " | $" \o toFixed2(abs(parseFloat(OrDefault(transactions[index], "amount", "0"))))
                     \o " | " \o OrDefault(transactions[index], "date", "No date")]>>
         \o DryRunLines(transactions, index + 1)

(***************************************************************************)
(* State                                                                   *)
(***************************************************************************)
VARIABLES
    entry,        \* the function that was called: "main", "validateAndUploadTransactions",
                  \* "parseCSV", "uploadToNotion" ("" before the call)
    pc,           \* where the called function stands: "idle", "access", "parsing",
                  \* "uploading", "returned", "exited"
    options,      \* the options object handed to main / validateAndUploadTransactions
    env,          \* process.env
    ticks,        \* days the wall clock has moved since StartDay
    config,       \* the locals notionApiKey, notionDatabaseId, whoAmI (absent = undefined)
    clients,      \* the auth keys of the Notion clients constructed
    outcome,      \* the promise returned by the called function: state and error message
    exit,         \* how the process ended: code ("" while running) and cause
    log,          \* console output, in order: [to |-> "log" | "error" | "warn", text]
    parseArgs,    \* parseCSV's arguments filePath and paymentMethod
    bank,         \* parseCSV's local bank ("" = null)
    opened,       \* the paths handed to createReadStream
    stream,       \* the piped streams: "none", "flowing", "ended", "failed", "crashed"
    emitted,      \* the 'data' events delivered: the row and the day it was delivered
    signals,      \* the 'end' and 'error' events of csv() delivered, in order
    results,      \* parseCSV's results array
    parsePromise, \* the promise parseCSV returned; resolved, its value is results
    uploadArgs,   \* uploadToNotion's arguments databaseId, transactions, whoAmI
    calls,        \* the pages.create calls issued: request and state
    uploadState   \* uploadToNotion's promise: "none", "pending", "fulfilled", "rejected"

runVars == <<entry, options, env, config, clients>>
endVars == <<pc, outcome, exit, log>>
parseVars == <<parseArgs, bank, opened, stream, emitted, signals, results, parsePromise>>
uploadVars == <<uploadArgs, calls, uploadState>>
vars == <<runVars, endVars, parseVars, uploadVars, ticks>>

today ==
    LET RECURSIVE After(_, _)
        After(t, n) == IF n = 0 THEN t ELSE After(NextDay(t), n - 1)
    IN After(StartDay, ticks)

Running == exit.code = ""
Pipeline == entry \in {"main", "validateAndUploadTransactions", "cli"}

None == [state |-> "none", error |-> ""]
Pending == [state |-> "pending", error |-> ""]
Resolved == [state |-> "resolved", error |-> ""]
Rejected(message) == [state |-> "rejected", error |-> message]

Init ==
    /\ entry = ""
    /\ pc = "idle"
    /\ options = NoKeys
    /\ env = NoKeys
    /\ ticks = 0
    /\ config = NoKeys
    /\ clients = <<>>
    /\ outcome = None
    /\ exit = [code |-> "", by |-> ""]
    /\ log = <<>>
    /\ parseArgs = NoKeys
    /\ bank = ""
    /\ opened = <<>>
    /\ stream = "none"
    /\ emitted = <<>>
    /\ signals = <<>>
    /\ results = <<>>
    /\ parsePromise = None
    /\ uploadArgs = NoKeys
    /\ calls = <<>>
    /\ uploadState = "none"

\* the wall clock reaches the next day
Tick ==
    /\ Running
    /\ pc \in {"access", "parsing", "uploading"}
    /\ ticks < MaxTicks
    /\ ticks' = ticks + 1
    /\ UNCHANGED <<runVars, endVars, parseVars, uploadVars>>

\* transactions handed to a direct call of uploadToNotion
Transactions ==
    {normalizeRow(ChaseRow, BANK_MAPPINGS["chase"], "Chase Freedom", StartDay),
     [description |-> "REFUND", amount |-> "abc", date |-> "garbage", paymentMethod |-> "Apple Card"],
     ("amount" :> "75.32") @@ ("date" :> "01/01/2023"),
     ("description" :> "") @@ ("paymentMethod" :> "")}

RECURSIVE SeqsUpTo(_, _)
SeqsUpTo(S, n) ==
    IF n = 0 THEN {<<>>}
    ELSE LET shorter == SeqsUpTo(S, n - 1) IN
         shorter \cup {Append(q, x) : q \in shorter, x \in S}

\* the error a failing stream of filePath carries
ReadErrorMessage(filePath) ==
    CASE FileKind(filePath) = "missing" -> "ENOENT: no such file or directory, open '" \o filePath \o "'"
      [] FileKind(filePath) = "dir" -> "EISDIR: illegal operation on a directory, read"
      [] OTHER -> "EIO: i/o error, read"
CsvErrorMessage == "Row exceeds the maximum size"
CreateErrorMessage == "Request failed"

\* how the runtime treats a rejected promise nobody handles: raised as an
\* uncaught exception ("throw", the default since Node 15) or reported as a
\* warning ("warn", the default before)
UnhandledRejections == {"throw", "warn"}

\* main / validateAndUploadTransactions ends with an error, after logging lines:
\* main prints it and calls process.exit(1), validateAndUploadTransactions
\* throws.  The command-line script calls validateAndUploadTransactions without
\* await, so its try block is left before the promise rejects and its catch
\* never runs: the rejection is unhandled.
Fails(message, lines) ==
    IF entry = "main"
    THEN /\ log' = log \o lines \o <<[to |-> "error", text |-> "Error: " \o message]>>
         /\ exit' = [code |-> "1", by |-> "process.exit"]
         /\ outcome' = outcome
         /\ pc' = "exited"
    ELSE IF entry = "cli"
    THEN /\ outcome' = Rejected(message)
         /\ pc' = "exited"
         /\ \E mode \in UnhandledRejections :
               IF mode = "throw"
               THEN /\ log' = log \o lines \o <<[to |-> "error", text |-> "Uncaught Error: " \o message]>>
                    /\ exit' = [code |-> "1", by |-> "unhandledRejection"]
               ELSE /\ log' = log \o lines
                              \o <<[to |-> "error",
                                    text |-> "UnhandledPromiseRejectionWarning: Error: " \o message]>>
                    /\ exit' = [code |-> "0", by |-> "drained"]
    ELSE /\ log' = log \o lines
         /\ exit' = exit
         /\ outcome' = Rejected(message)
         /\ pc' = "returned"

\* Returns turning any error line logged on the way into a failure of the run
ReturnsEscalating(lines) ==
    LET out == log \o lines
        failed == \E j \in DOMAIN out : out[j].to = "error"
    IN /\ log' = out
       /\ outcome' = IF failed THEN Rejected(CreateErrorMessage) ELSE Resolved
       /\ pc' = "returned"
       /\ exit' = IF entry \in {"main", "cli"}
                  THEN [code |-> IF failed THEN "1" ELSE "0", by |-> "drained"]
                  ELSE exit

\* main / validateAndUploadTransactions runs to its end, after logging lines;
\* the script of main then has nothing left to wait for
Returns(lines) ==
    /\ log' = log \o lines
    /\ outcome' = Resolved
    /\ pc' = "returned"
    /\ exit' = IF entry \in {"main", "cli"} THEN [code |-> "0", by |-> "drained"] ELSE exit

\* the promise executor of parseCSV(filePath, paymentMethod) has run
Executed(filePath, paymentMethod) ==
    LET x == parseCSVExecutor(filePath, paymentMethod) IN
    /\ parseArgs' = [filePath |-> filePath, paymentMethod |-> paymentMethod]
    /\ bank' = x.bank
    /\ opened' = opened \o x.opens
    /\ stream' = IF x.opens # <<>> THEN "flowing" ELSE stream
    /\ parsePromise' = IF x.rejects THEN Rejected(x.error) ELSE Pending
    /\ UNCHANGED <<emitted, signals, results>>

\* Started issuing the create calls of all transactions at once
StartedInParallel(databaseId, transactions, whoAmI, e) ==
    /\ uploadArgs' = [databaseId |-> databaseId, transactions |-> transactions, whoAmI |-> whoAmI]
    /\ calls' = calls \o [i \in 1..Len(transactions) |->
                             [request |-> buildRequest(databaseId, transactions[i], whoAmI, today, e).request,
                              state |-> "pending"]]
    /\ uploadState' = IF Len(transactions) = 0 THEN "fulfilled" ELSE "pending"

\* uploadToNotion(databaseId, transactions, whoAmI) has run up to its first await
Started(databaseId, transactions, whoAmI, e) ==
    /\ uploadArgs' = [databaseId |-> databaseId, transactions |-> transactions, whoAmI |-> whoAmI]
    /\ IF Len(transactions) = 0
       THEN calls' = calls /\ uploadState' = "fulfilled"
       ELSE /\ calls' = Append(calls, [request |-> buildRequest(databaseId, transactions[1], whoAmI, today, e).request,
                                       state |-> "pending"])
            /\ uploadState' = "pending"

StartLines(databaseId, transactions, whoAmI, e) ==
    <<[to |-> "log", text |-> "Uploading transactions to Notion..."]>>
      \o (IF Len(transactions) = 0 THEN <<>>
          ELSE buildRequest(databaseId, transactions[1], whoAmI, today, e).warns)

\* SuccessLine reporting the create calls that were fulfilled
SuccessLineCountingOk(n) ==
    [to |-> "log",
     text |-> "Successfully uploaded "
              \o ToString(Cardinality({k \in DOMAIN calls' : calls'[k].state = "ok"}))
              \o " transactions to Notion!"]

SuccessLine(n) ==
    [to |-> "log", text |-> "Successfully uploaded " \o ToString(n) \o " transactions to Notion!"]

(***************************************************************************)
(* Calls                                                                   *)
(***************************************************************************)
\* main(options) of src/src/index.js, up to its await of fs.access
CallMain(o, e) ==
    /\ pc = "idle"
    /\ entry' = "main"
    /\ options' = o
    /\ env' = e
    /\ log' = <<[to |-> "log", text |-> "just entered MAIN"]>>
    /\ outcome' = Pending
    /\ pc' = "access"
    /\ UNCHANGED <<config, clients, exit, parseVars, uploadVars, ticks>>

\* validateAndUploadTransactions(options), up to its await of fs.access
CallValidateAndUpload(o, e) ==
    /\ pc = "idle"
    /\ entry' = "validateAndUploadTransactions"
    /\ options' = o
    /\ env' = e
    /\ log' = <<[to |-> "log", text |-> "just entered MAIN"]>>
    /\ outcome' = Pending
    /\ pc' = "access"
    /\ UNCHANGED <<config, clients, exit, parseVars, uploadVars, ticks>>

\* the command-line script: its async function runs up to the end of its try
\* block, where validateAndUploadTransactions(program.opts()) has returned a
\* pending promise that is not awaited
CallCli(o, e) ==
    /\ pc = "idle"
    /\ entry' = "cli"
    /\ options' = o
    /\ env' = e
    /\ log' = <<[to |-> "log", text |-> "IN THE FILE"], [to |-> "log", text |-> "just entered MAIN"]>>
    /\ outcome' = Pending
    /\ pc' = "access"
    /\ UNCHANGED <<config, clients, exit, parseVars, uploadVars, ticks>>

\* fs.access has settled: the checks, the client and the call of parseCSV
AccessSettles ==
    /\ pc = "access"
    /\ Running
    /\ LET c == mergeConfig(options, env)
           message == validationError(options, env)
           debug == IF fsAccess(options["csvFilePath"]) THEN DebugLines(c) ELSE <<>>
       IN /\ config' = IF fsAccess(options["csvFilePath"]) THEN c ELSE config
          /\ IF message # ""
             THEN /\ Fails(message, debug)
                  /\ UNCHANGED <<clients, parseVars>>
             ELSE /\ clients' = Append(clients, c["notionApiKey"])
                  /\ Executed(options["csvFilePath"], options["paymentMethod"])
                  /\ log' = log \o debug
                             \o parseCSVExecutor(options["csvFilePath"], options["paymentMethod"]).logs
                  /\ pc' = "parsing"
                  /\ UNCHANGED <<outcome, exit>>
    /\ UNCHANGED <<entry, options, env, uploadVars, ticks>>

\* a direct call of the exported parseCSV
CallParseCSV(filePath, paymentMethod) ==
    /\ pc = "idle"
    /\ entry' = "parseCSV"
    /\ Executed(filePath, paymentMethod)
    /\ log' = log \o parseCSVExecutor(filePath, paymentMethod).logs
    /\ outcome' = Pending
    /\ pc' = "parsing"
    /\ UNCHANGED <<options, env, config, clients, exit, uploadVars, ticks>>

\* a direct call of the exported uploadToNotion
CallUploadToNotion(databaseId, transactions, whoAmI, e) ==
    /\ pc = "idle"
    /\ entry' = "uploadToNotion"
    /\ env' = e
    /\ Started(databaseId, transactions, whoAmI, e)
    /\ log' = log \o StartLines(databaseId, transactions, whoAmI, e)
    /\ outcome' = IF Len(transactions) = 0 THEN Resolved ELSE Pending
    /\ pc' = IF Len(transactions) = 0 THEN "returned" ELSE "uploading"
    /\ UNCHANGED <<options, config, clients, exit, parseVars, ticks>>

(***************************************************************************)
(* Events of the piped streams  createReadStream(filePath).pipe(csv())     *)
(***************************************************************************)
\* what the handlers close over
Handled == [results |-> results, promise |-> parsePromise]

\* the rows the open file can hold
StreamRows == IF stream = "flowing" THEN RowsOf(parseArgs["filePath"]) ELSE {}

\* csv() emits 'data' with the next row
Data(data) ==
    /\ stream = "flowing"
    /\ Running
    /\ FileKind(parseArgs["filePath"]) = "file"
    /\ bank # ""
    /\ Len(emitted) < MaxRows
    /\ emitted' = Append(emitted, [row |-> data, at |-> today])
    /\ LET st == onData(Handled, data, bank, parseArgs["paymentMethod"], today)
       IN results' = st.results /\ parsePromise' = st.promise
    /\ UNCHANGED <<runVars, endVars, uploadVars, ticks, parseArgs, bank, opened, stream, signals>>

\* csv() emits 'end': resolve(results)
End ==
    /\ stream = "flowing"
    /\ Running
    /\ FileKind(parseArgs["filePath"]) = "file"
    /\ stream' = "ended"
    /\ signals' = Append(signals, "end")
    /\ LET st == onEnd(Handled)
       IN results' = st.results /\ parsePromise' = st.promise
    /\ UNCHANGED <<runVars, endVars, uploadVars, ticks, parseArgs, bank, opened, emitted>>

\* csv() emits 'error': reject(error)
CsvError ==
    /\ stream = "flowing"
    /\ Running
    /\ FileKind(parseArgs["filePath"]) = "file"
    /\ stream' = "failed"
    /\ signals' = Append(signals, "error")
    /\ LET st == onError(Handled, CsvErrorMessage)
       IN results' = st.results /\ parsePromise' = st.promise
    /\ UNCHANGED <<runVars, endVars, uploadVars, ticks, parseArgs, bank, opened, emitted>>

\* the file stream emits 'error'.  pipe() does not forward it to csv() and no
\* 'error' listener is attached to the file stream, so emit throws: an
\* uncaught exception ends the process and the promise stays pending.
ReadError ==
    /\ stream = "flowing"
    /\ Running
    /\ stream' = "crashed"
    /\ log' = log \o <<[to |-> "error",
                        text |-> "Unhandled 'error' event: " \o ReadErrorMessage(parseArgs["filePath"])]>>
    /\ exit' = [code |-> "1", by |-> "uncaughtException"]
    /\ pc' = "exited"
    /\ UNCHANGED <<runVars, outcome, uploadVars, ticks, parseArgs, bank, opened, emitted, signals, results,
                   parsePromise>>

\* csv() emits 'end' or 'error' once more after its 'end' or 'error' (a
\* stream destroyed with an error after it ended, an 'end' that follows an
\* 'error' on a stream that is not destroyed by it): the handler runs again
\* and calls resolve or reject a second time
LateSignal(kind) ==
    /\ stream \in {"ended", "failed"}
    /\ Running
    /\ Len(signals) < MaxSignals
    /\ signals' = Append(signals, kind)
    /\ LET st == IF kind = "end" THEN onEnd(Handled) ELSE onError(Handled, CsvErrorMessage)
       IN results' = st.results /\ parsePromise' = st.promise
    /\ UNCHANGED <<runVars, endVars, uploadVars, ticks, parseArgs, bank, opened, stream, emitted>>

(***************************************************************************)
(* Continuations                                                           *)
(***************************************************************************)
\* the caller's await of parseCSV resumes
ParseSettled ==
    /\ pc = "parsing"
    /\ Running
    /\ parsePromise.state \in {"resolved", "rejected"}
    /\ IF entry = "parseCSV"
       THEN /\ outcome' = parsePromise
            /\ pc' = "returned"
            /\ UNCHANGED <<exit, log, uploadVars>>
       ELSE IF parsePromise.state = "rejected"
       THEN /\ Fails(parsePromise.error, <<>>)
            /\ UNCHANGED uploadVars
       ELSE LET step == afterParse(Len(results), "dryRun" \in DOMAIN options)
                found == <<[to |-> "log",
                            text |-> "Found " \o ToString(Len(results))
                                     \o " transactions with payment method: "
                                     \o options["paymentMethod"]]>>
            IN IF step = "exit"
               THEN /\ log' = log \o <<[to |-> "log",
                                        text |-> "No transactions found with payment method: "
                                                 \o options["paymentMethod"]]>>
                    /\ exit' = [code |-> "0", by |-> "process.exit"]
                    /\ pc' = "exited"
                    /\ UNCHANGED <<outcome, uploadVars>>
               ELSE IF step = "dryRun"
               THEN /\ Returns(found
                         \o <<[to |-> "log", text |-> "DRY RUN: The following transactions would be uploaded:"],
                              [to |-> "log", text |-> "------------------------------------------------"]>>
                         \o DryRunLines(results, 1)
                         \o <<[to |-> "log", text |-> "------------------------------------------------"],
                              [to |-> "log", text |-> "Total: " \o ToString(Len(results)) \o " transactions"]>>)
                    /\ UNCHANGED uploadVars
               ELSE /\ Started(config["notionDatabaseId"], results, config["whoAmI"], env)
                    /\ IF Len(results) = 0
                       THEN Returns(found
                              \o StartLines(config["notionDatabaseId"], results, config["whoAmI"], env)
                              \o <<SuccessLine(Len(results))>>)
                       ELSE /\ log' = log \o found
                                    \o StartLines(config["notionDatabaseId"], results, config["whoAmI"], env)
                            /\ pc' = "uploading"
                            /\ UNCHANGED <<outcome, exit>>
    /\ UNCHANGED <<runVars, parseVars, ticks>>

\* the pending pages.create call settles; the loop goes on or the function
\* returns to its caller
CreateSettles(fulfilled) ==
    /\ pc = "uploading"
    /\ Running
    /\ LET idx == Len(calls)
           transactions == uploadArgs["transactions"]
           n == Len(transactions)
           settled == [calls EXCEPT ![idx].state = IF fulfilled THEN "ok" ELSE "failed"]
           line == IF fulfilled THEN UploadedLine(transactions[idx], uploadArgs["whoAmI"])
                   ELSE FailedLine(CreateErrorMessage)
           step == afterCreate(fulfilled, idx, n)
       IN /\ calls[idx].state = "pending"
          /\ IF step = "next"
             THEN LET b == buildRequest(uploadArgs["databaseId"], transactions[idx + 1],
                                        uploadArgs["whoAmI"], today, env)
                  IN /\ calls' = Append(settled, [request |-> b.request, state |-> "pending"])
                     /\ log' = log \o <<line>> \o b.warns
                     /\ UNCHANGED <<uploadState, pc, outcome, exit>>
             ELSE IF step = "return"
             THEN /\ calls' = settled
                  /\ uploadState' = "fulfilled"
                  /\ IF Pipeline
                     THEN Returns(<<line, SuccessLine(Len(results))>>)
                     ELSE /\ log' = log \o <<line>>
                          /\ outcome' = Resolved
                          /\ pc' = "returned"
                          /\ exit' = exit
             ELSE /\ calls' = settled
                  /\ uploadState' = "rejected"
                  /\ IF Pipeline
                     THEN Fails(CreateErrorMessage, <<line>>)
                     ELSE /\ log' = log \o <<line>>
                          /\ outcome' = Rejected(CreateErrorMessage)
                          /\ pc' = "returned"
                          /\ exit' = exit
    /\ uploadArgs' = uploadArgs
    /\ UNCHANGED <<runVars, parseVars, ticks>>

\* the calls a run can start with, with their inputs
Calls ==
    /\ pc = "idle"
    /\ \/ \E o \in OptionObjects, e \in Environments : CallMain(o, e)
       \/ \E o \in OptionObjects, e \in Environments : CallValidateAndUpload(o, e)
       \/ \E o \in OptionObjects, e \in Environments : CallCli(o, e)
       \/ \E filePath \in {"export.csv", "reports", "missing.csv"}, paymentMethod \in Labels :
             CallParseCSV(filePath, paymentMethod)
       \/ \E transactions \in SeqsUpTo(Transactions, MaxTx), whoAmI \in {"Alli", "Justin"}, z \in Zones :
             CallUploadToNotion("db-1", transactions, whoAmI, z)

Next ==
    \/ Calls
    \/ AccessSettles
    \/ \E data \in StreamRows : Data(data)
    \/ End
    \/ CsvError
    \/ ReadError
    \/ \E kind \in {"end", "error"} : LateSignal(kind)
    \/ ParseSettled
    \/ \E fulfilled \in BOOLEAN : CreateSettles(fulfilled)
    \/ Tick

Spec == Init /\ [][Next]_vars

\* the option objects of the runs followed to their end: a file or a
\* directory, a payment method, with or without an identity and the dry-run
\* flag
LiveOptions ==
    {("csvFilePath" :> p) @@ ("paymentMethod" :> m) @@ ("notionApiKey" :> "secret-opt")
        @@ ("notionDatabaseId" :> "db-opt") @@ w @@ r :
        p \in {"statement.csv", "reports"},
        m \in {"Chase Freedom", "Unsupported Card"},
        w \in Optional("whoAmI", {"Alli"}),
        r \in Optional("dryRun", {TRUE})}

LiveCalls ==
    /\ pc = "idle"
    /\ \/ \E o \in LiveOptions : CallMain(o, NoKeys)
       \/ \E o \in LiveOptions : CallValidateAndUpload(o, NoKeys)
       \/ \E o \in LiveOptions : CallCli(o, NoKeys)

LiveNext ==
    \/ LiveCalls
    \/ AccessSettles
    \/ \E data \in StreamRows : Data(data)
    \/ End
    \/ CsvError
    \/ ReadError
    \/ \E kind \in {"end", "error"} : LateSignal(kind)
    \/ ParseSettled
    \/ \E fulfilled \in BOOLEAN : CreateSettles(fulfilled)
    \/ Tick

\* The pipeline under the scheduling it runs with: the event loop resumes an
\* await whose promise has settled (fs.access always settles), the piped
\* streams come to an end one way or another, and every create call is
\* answered.
LiveSpec ==
    /\ Init /\ [][LiveNext]_vars
    /\ WF_vars(AccessSettles)
    /\ WF_vars(End \/ CsvError \/ ReadError)
    /\ WF_vars(ParseSettled)
    /\ WF_vars(\E fulfilled \in BOOLEAN : CreateSettles(fulfilled))

(***************************************************************************)
(* Properties                                                              *)
(***************************************************************************)
Present(o, key, e, name) == Truthy(o, key) \/ Truthy(e, name)

Identity ==
    IF Truthy(options, "whoAmI") THEN options["whoAmI"]
    ELSE IF Truthy(env, "WHO_AM_I") THEN env["WHO_AM_I"]
    ELSE ""

\* the six checks of the validator, by rank: does check k fail on the inputs?
CheckFails(k) ==
    CASE k = 1 -> FileKind(options["csvFilePath"]) = "missing"
      [] k = 2 -> ~Present(options, "notionApiKey", env, "NOTION_API_KEY")
      [] k = 3 -> ~Present(options, "notionDatabaseId", env, "NOTION_DATABASE_ID")
      [] k = 4 -> ~Present(options, "whoAmI", env, "WHO_AM_I")
      [] k = 5 -> Identity \notin {"Alli", "Justin"}
      [] k = 6 -> options["paymentMethod"] \notin
                     {"Amex Platinum", "Apple Card", "Chase Freedom", "Chase Sapphire", "Chase Southwest"}

CheckMessage(k) ==
    CASE k = 1 -> MsgCsvNotFound(options["csvFilePath"])
      [] k = 2 -> MsgApiKey
      [] k = 3 -> MsgDatabaseId
      [] k = 4 -> MsgWhoAmI
      [] k = 5 -> MsgUser
      [] k = 6 -> MsgMethod

\* the rank of the first failing check, 0 when none fails
FirstFailing ==
    IF \E k \in 1..6 : CheckFails(k)
    THEN CHOOSE k \in 1..6 : CheckFails(k) /\ \A j \in 1..(k - 1) : ~CheckFails(j)
    ELSE 0

\* the errors the run has reported: console.error lines of main, the rejection
\* of validateAndUploadTransactions
ErrorLines == SelectSeq(log, LAMBDA l : l.to = "error")
Reported ==
    IF entry = "main" THEN [i \in DOMAIN ErrorLines |-> ErrorLines[i].text]
    ELSE IF outcome.state = "rejected" THEN <<outcome.error>>
    ELSE <<>>

Validated == Pipeline /\ pc # "access"

\* C1: once validation has run, a run with failing checks has reported exactly
\* one error, that of the first failing check in the order file, API key,
\* database ID, identity missing, identity not allowed, payment method not
\* allowed, and has got no further; a run with no failing check has passed.
C1_ValidationPrecedence ==
    Validated =>
        IF FirstFailing = 0 THEN clients # <<>>
        ELSE /\ Reported = <<(IF entry = "main" THEN "Error: " ELSE "") \o CheckMessage(FirstFailing)>>
             /\ pc \in {"exited", "returned"}
             /\ clients = <<>> /\ opened = <<>> /\ calls = <<>>

\* C1 witness: API key, database ID, identity and payment method all fail at
\* once and the API key error is the one thrown
C1_Witness ==
    /\ entry = "validateAndUploadTransactions" /\ pc = "returned"
    /\ ~CheckFails(1) /\ CheckFails(2) /\ CheckFails(3) /\ CheckFails(4) /\ CheckFails(6)
    /\ outcome = Rejected(MsgApiKey)

Attempted(k) == k \in DOMAIN calls

\* C2: uploadToNotion never rejects; after a failed create call for record k
\* the call for record k+1 has been issued, and when the function has returned
\* every one of the N transactions has been attempted.
C2_UploadNeverAborts ==
    /\ uploadState # "rejected"
    /\ entry = "uploadToNotion" => outcome.state # "rejected"
    /\ "transactions" \in DOMAIN uploadArgs =>
         LET n == Len(uploadArgs["transactions"]) IN
         /\ \A k \in DOMAIN calls : calls[k].state = "failed" /\ k < n => Attempted(k + 1)
         /\ uploadState = "fulfilled" =>
              /\ \A k \in 1..n : Attempted(k) /\ calls[k].state \in {"ok", "failed"}
              /\ entry = "uploadToNotion" => outcome.state = "resolved"

\* C2 witness: the first create call failed, the second was made and the
\* function returned
C2_Witness ==
    /\ uploadState = "fulfilled"
    /\ Len(calls) = 2
    /\ calls[1].state = "failed"
    /\ calls[2].state = "ok"

\* label starts with prefix, letters compared without regard to case
PrefixIgnoringCase(label, prefix) ==
    /\ Len(label) >= Len(prefix)
    /\ \A i \in 1..Len(prefix) :
          \/ CharAt(label, i) = CharAt(prefix, i)
          \/ \E k \in 1..Len(Upper) :
                CharAt(Upper, k) = CharAt(label, i) /\ CharAt(Lower, k) = CharAt(prefix, i)

ExpectedBank(label) ==
    IF PrefixIgnoringCase(label, "chase") THEN "chase"
    ELSE IF PrefixIgnoringCase(label, "amex") THEN "amex"
    ELSE IF PrefixIgnoringCase(label, "apple") THEN "apple"
    ELSE ""

ParseCalled == "paymentMethod" \in DOMAIN parseArgs
Label == parseArgs["paymentMethod"]
Paired == Len(results) = Len(emitted)

\* C3: in parseCSV a label that starts, case-insensitively, with chase, amex
\* or apple selects that bank's mapping (the rows are read through its
\* columns); any other label rejects the promise with a message containing
\* "Unsupported payment method: <label>".
C3_BankResolution ==
    ParseCalled =>
        IF ExpectedBank(Label) # ""
        THEN /\ bank = ExpectedBank(Label)
             /\ ~(parsePromise.state = "rejected" /\ Contains(parsePromise.error, "Unsupported"))
             /\ Paired
             /\ \A i \in DOMAIN results :
                   LET columns == BANK_MAPPINGS[ExpectedBank(Label)] IN
                   /\ results[i].description = OrDefault(emitted[i].row, columns.description, "Unknown")
                   /\ results[i].amount = OrDefault(emitted[i].row, columns.amount, "0")
        ELSE /\ parsePromise.state = "rejected"
             /\ Contains(parsePromise.error, "Unsupported payment method: " \o Label)
             /\ results = <<>>
             /\ entry = "parseCSV" /\ pc = "returned" => outcome = parsePromise

\* C3 witness: a mixed-case Apple label reads the Merchant column
C3_Witness ==
    /\ ParseCalled
    /\ Label = "aPpLe Card"
    /\ bank = "apple"
    /\ Len(results) = 1
    /\ results[1].description = "NETFLIX"

MappedColumns == BANK_MAPPINGS[bank]

\* C4 as stated: every row that has the three mapped columns is normalized to
\* exactly the values of those columns.
C4_AllColumnsVerbatim ==
    ParseCalled /\ Paired =>
        \A i \in DOMAIN results :
            LET row == emitted[i].row IN
            {MappedColumns.description, MappedColumns.amount, MappedColumns.transactionDate}
                \subseteq DOMAIN row =>
              /\ results[i].description = row[MappedColumns.description]
              /\ results[i].amount = row[MappedColumns.amount]
              /\ results[i].date = row[MappedColumns.transactionDate]

\* C4 amended: every row that has the three mapped columns, each with a
\* non-empty value, is normalized to exactly the values of those columns.
C4_NonEmptyColumnsVerbatim ==
    ParseCalled /\ Paired =>
        \A i \in DOMAIN results :
            LET row == emitted[i].row IN
            /\ {MappedColumns.description, MappedColumns.amount, MappedColumns.transactionDate}
                  \subseteq DOMAIN row
            /\ row[MappedColumns.description] # ""
            /\ row[MappedColumns.amount] # ""
            /\ row[MappedColumns.transactionDate] # ""
            => /\ results[i].description = row[MappedColumns.description]
               /\ results[i].amount = row[MappedColumns.amount]
               /\ results[i].date = row[MappedColumns.transactionDate]

\* C4 witness: a complete Chase row read through the Chase mapping
C4_Witness ==
    /\ bank = "chase"
    /\ Len(results) = 1
    /\ emitted[1].row = ChaseRow
    /\ results[1].description = "AMAZON.COM"
    /\ results[1].amount = "-50.99"
    /\ results[1].date = "2023-01-15"

\* text is the day t written YYYY-MM-DD
IsIsoDateOf(text, t) ==
    /\ Len(text) = 10
    /\ CharAt(text, 5) = "-" /\ CharAt(text, 8) = "-"
    /\ AllDigits(SubSeq(text, 1, 4) \o SubSeq(text, 6, 7) \o SubSeq(text, 9, 10))
    /\ DecimalValue(SubSeq(text, 1, 4)) = t.y
    /\ DecimalValue(SubSeq(text, 6, 7)) = t.m
    /\ DecimalValue(SubSeq(text, 9, 10)) = t.d

\* C5: a row lacking the mapped description column gets "Unknown", one lacking
\* the mapped amount column gets the text "0", one lacking the mapped date
\* column gets the day of the 'data' event as YYYY-MM-DD; each field is decided
\* by its own column alone, a non-empty column being taken as it is.
C5_MissingColumnDefaults ==
    ParseCalled /\ Paired =>
        \A i \in DOMAIN results :
            LET row == emitted[i].row IN
            /\ MappedColumns.description \notin DOMAIN row => results[i].description = "Unknown"
            /\ MappedColumns.amount \notin DOMAIN row => results[i].amount = "0"
            /\ MappedColumns.transactionDate \notin DOMAIN row =>
                  IsIsoDateOf(results[i].date, emitted[i].at)
            /\ Truthy(row, MappedColumns.description) =>
                  results[i].description = row[MappedColumns.description]
            /\ Truthy(row, MappedColumns.amount) => results[i].amount = row[MappedColumns.amount]
            /\ Truthy(row, MappedColumns.transactionDate) =>
                  results[i].date = row[MappedColumns.transactionDate]

\* C5 witness: a Chase row without an Amount column keeps its description and
\* date and gets the amount "0"; the next day a row without any mapped column
\* gets all three defaults
C5_Witness ==
    /\ bank = "chase"
    /\ Len(results) = 2
    /\ emitted[1].row = NoAmountRow
    /\ results[1].amount = "0" /\ results[1].description = "UBER" /\ results[1].date = "2023-02-02"
    /\ emitted[2].row = MemoRow
    /\ results[2].amount = "0" /\ results[2].description = "Unknown" /\ results[2].date = "2024-01-01"

ParsedNothing ==
    Pipeline /\ parsePromise.state = "resolved" /\ Len(results) = 0 /\ pc # "parsing"

\* C6: when parsing yields no transaction, the run reports that none were
\* found, exits with status 0 and has made no create call, with or without
\* the dry-run flag.
C6_NothingFoundExits ==
    ParsedNothing =>
        /\ exit = [code |-> "0", by |-> "process.exit"]
        /\ calls = <<>>
        /\ log[Len(log)] = [to |-> "log",
                            text |-> "No transactions found with payment method: "
                                     \o options["paymentMethod"]]
        /\ ErrorLines = <<>>

\* C6 witness: an empty file in normal (not dry-run) mode
C6_Witness ==
    /\ ParsedNothing
    /\ "dryRun" \notin DOMAIN options
    /\ exit.code = "0"

C8_ResolvesAfterEnd ==
    /\ parsePromise.state = "resolved" =>
          /\ stream = "ended"
          /\ Len(results) = Len(emitted)
          /\ \A i \in DOMAIN emitted : results[i].originalData = emitted[i].row
    /\ stream = "flowing" => parsePromise.state # "resolved"
    /\ entry = "parseCSV" /\ outcome.state = "resolved" => stream = "ended"

\* C8 witness: resolved after two rows and the end of input
C8_Witness ==
    /\ parsePromise.state = "resolved"
    /\ stream = "ended"
    /\ Len(emitted) = 2
    /\ Len(results) = 2

\* C9 as stated: whenever the row source has failed, by an error of the CSV
\* decoder or by a failure to open or read the file, the parse promise is
\* rejected with that error.
C9_SourceErrorRejects ==
    /\ stream = "failed" => parsePromise = Rejected(CsvErrorMessage)
    /\ stream = "crashed" => parsePromise = Rejected(ReadErrorMessage(parseArgs["filePath"]))

\* C10: when the label resolves to no bank the promise is rejected and no file
\* has been opened, at any point of the run.
C10_NoBankNoOpen ==
    ParseCalled /\ ExpectedBank(Label) = "" =>
        /\ parsePromise.state = "rejected"
        /\ opened = <<>>
        /\ stream = "none"

\* C10 witness: a label that only contains a bank name, rejected, nothing opened
C10_Witness ==
    /\ ParseCalled
    /\ Label = "My Chase Card"
    /\ outcome = Rejected(MsgUnsupported("My Chase Card"))
    /\ opened = <<>>

\* the transaction create call number i was made for
Submitted(i) == uploadArgs["transactions"][i]
AmountText(transaction) == IF "amount" \in DOMAIN transaction THEN transaction["amount"] ELSE ""
DateText(transaction) == IF "date" \in DOMAIN transaction THEN transaction["date"] ELSE ""

\* C11 as stated: the number of every submitted record is a number, not
\* negative: the absolute value of the amount text when that parses as a
\* number, and 0 when it does not.
C11_AmountNonNegative ==
    \A i \in DOMAIN calls :
        LET number == calls[i].request.TotalAmount
            parsed == parseFloat(AmountText(Submitted(i)))
        IN /\ ~number.nan
           /\ number.cents >= 0
           /\ number.cents = IF parsed.nan THEN 0
                             ELSE IF parsed.cents < 0 THEN 0 - parsed.cents ELSE parsed.cents

\* C12: the payment-method label of every submitted record is the identity
\* handed to uploadToNotion, "'s ", and the transaction's paymentMethod, or
\* "Unknown Card" when the transaction has no paymentMethod or an empty one.
C12_PaymentMethodLabel ==
    \A i \in DOMAIN calls :
        LET transaction == Submitted(i)
            card == IF "paymentMethod" \in DOMAIN transaction /\ transaction["paymentMethod"] # ""
                    THEN transaction["paymentMethod"]
                    ELSE "Unknown Card"
        IN calls[i].request.PaymentMethod = uploadArgs["whoAmI"] \o "'s " \o card

\* C12 witness: Justin uploads a transaction with an empty paymentMethod and
\* one of the Chase Freedom card
C12_Witness ==
    /\ Len(calls) = 2
    /\ uploadArgs["whoAmI"] = "Justin"
    /\ Submitted(1)["paymentMethod"] = ""
    /\ calls[1].request.PaymentMethod = "Justin's Unknown Card"
    /\ calls[2].request.PaymentMethod = "Justin's Chase Freedom"

\* the day k days after StartDay
RECURSIVE DaysLater(_)
DaysLater(k) == IF k = 0 THEN StartDay ELSE NextDay(DaysLater(k - 1))

\* the calendar day a date text names, whatever the zone of the process
WrittenDay(text) == newDate(text, NoKeys)

\* C13 as stated: the date of every submitted record is the day its source
\* date names, written YYYY-MM-DD, when the source date is parseable, and the
\* current day otherwise; an unparseable source date is logged as a warning,
\* and the record is submitted all the same.
C13_DateReformatted ==
    /\ \A i \in DOMAIN calls :
          LET text == DateText(Submitted(i)) IN
          IF WrittenDay(text).valid
          THEN IsIsoDateOf(calls[i].request.Date, WrittenDay(text).day)
          ELSE /\ \E k \in 0..ticks : IsIsoDateOf(calls[i].request.Date, DaysLater(k))
               /\ text # "" => \E j \in DOMAIN log : log[j].to = "warn" /\ Contains(log[j].text, text)
    /\ uploadState = "fulfilled" => Len(calls) = Len(uploadArgs["transactions"])

DryRun == "dryRun" \in DOMAIN options

\* the run has resumed after parseCSV resolved with at least one transaction
Consumed == Pipeline /\ parsePromise.state = "resolved" /\ Len(results) > 0 /\ pc # "parsing"

\* console.log printed a line that starts with text
Printed(text) == \E j \in DOMAIN log : log[j].to = "log" /\ startsWith(log[j].text, text)

\* C14: a dry run never makes a create call and never starts the uploader;
\* given transactions it prints each of them, numbered, and returns.  A run
\* without the flag that parsed at least one transaction hands them all to
\* the uploader, which makes a create call.
C14_DryRunNeverSubmits ==
    Pipeline =>
        /\ DryRun => calls = <<>> /\ uploadState = "none"
        /\ Consumed /\ DryRun =>
              /\ pc = "returned" /\ outcome.state = "resolved"
              /\ \A i \in DOMAIN results :
                    Printed(ToString(i) \o ". "
                            \o (IF results[i].description # "" THEN results[i].description ELSE "Unknown"))
        /\ Consumed /\ ~DryRun =>
              /\ uploadState # "none"
              /\ uploadArgs["transactions"] = results
              /\ Len(calls) >= 1

\* C14 witness: a dry run of main over two rows has printed and returned
\* without a create call
C14_Witness ==
    /\ entry = "main" /\ DryRun /\ Consumed
    /\ Len(results) = 2
    /\ Printed("2. AMAZON.COM")
    /\ calls = <<>>
    /\ exit.code = "0"

CommandLine == entry \in {"main", "cli"}

\* the validator has thrown or the parse promise has rejected, with this message
Failure ==
    IF Validated /\ FirstFailing # 0 THEN CheckMessage(FirstFailing)
    ELSE IF pc # "parsing" /\ parsePromise.state = "rejected" THEN parsePromise.error
    ELSE ""

\* C15 as stated: when validation or parsing has failed in a command-line
\* run, the entry point's error handler has observed the failure: it printed
\* the one line "Error: <message>" last and ended the process by
\* process.exit with status 1.
C15_FailureExitsNonZero ==
    CommandLine /\ Failure # "" =>
        /\ exit = [code |-> "1", by |-> "process.exit"]
        /\ log[Len(log)] = [to |-> "error", text |-> "Error: " \o Failure]

\* C16: once the upload loop has completed, whatever the number of create
\* calls that failed (all of them included), the run has ended successfully:
\* the top-level promise is fulfilled, not rejected, the exit status is not
\* non-zero, and the pipeline has printed its success line last.
C16_FailedCreatesNotEscalated ==
    uploadState = "fulfilled" =>
        /\ outcome.state = "resolved"
        /\ exit.code \in {"", "0"}
        /\ CommandLine => exit = [code |-> "0", by |-> "drained"]
        /\ Pipeline => log[Len(log)] = SuccessLine(Len(uploadArgs["transactions"]))

\* C16 witness: main uploads two transactions, both create calls fail, and the
\* process ends with status 0
C16_Witness ==
    /\ entry = "main"
    /\ uploadState = "fulfilled"
    /\ Len(calls) = 2
    /\ \A k \in DOMAIN calls : calls[k].state = "failed"
    /\ exit.code = "0"

\* the file, the API key, the database ID and an identity are all there
OthersValid == Validated /\ \A k \in 1..4 : ~CheckFails(k)

HasReported(message) ==
    \E i \in DOMAIN Reported : Reported[i] = (IF entry = "main" THEN "Error: " ELSE "") \o message

\* C17: with the file, the API key, the database ID and an identity present,
\* the identity check fails exactly when the identity is neither "Alli" nor
\* "Justin"; past it, the payment-method check fails exactly when the method
\* is none of the five allowed names; letters are compared as they are, so
\* "alli" and "chase sapphire" are refused.  Validation passes exactly when
\* both are allowed.
C17_AllowListGating ==
    OthersValid =>
        LET who == Identity \in {"Alli", "Justin"}
            method == options["paymentMethod"] \in
                          {"Amex Platinum", "Apple Card", "Chase Freedom", "Chase Sapphire",
                           "Chase Southwest"}
        IN /\ HasReported(MsgUser) <=> ~who
           /\ who => (HasReported(MsgMethod) <=> ~method)
           /\ clients # <<>> <=> who /\ method

\* C17 witness: "alli" is refused by the identity check, although Justin is
\* the identity of the environment
C17_Witness ==
    /\ OthersValid
    /\ options["paymentMethod"] = "Chase Sapphire"
    /\ Identity = "alli"
    /\ Truthy(env, "WHO_AM_I")
    /\ HasReported(MsgUser)
    /\ clients = <<>>

\* the three settings that have two sources: option, environment variable,
\* and the error raised when the setting is missing
Settings ==
    {[key |-> "notionApiKey", name |-> "NOTION_API_KEY", missing |-> MsgApiKey],
     [key |-> "notionDatabaseId", name |-> "NOTION_DATABASE_ID", missing |-> MsgDatabaseId],
     [key |-> "whoAmI", name |-> "WHO_AM_I", missing |-> MsgWhoAmI]}

\* the settings have been read: validation has run on an existing file
Merged == Validated /\ ~CheckFails(1)

\* C18 as stated: the value used is the option when one is given and the
\* environment variable otherwise, and the missing error is raised only when
\* both are absent.
C18_OptionWins ==
    Merged =>
        \A s \in Settings :
            /\ s.key \in DOMAIN options => s.key \in DOMAIN config /\ config[s.key] = options[s.key]
            /\ s.key \notin DOMAIN options /\ s.name \in DOMAIN env =>
                  s.key \in DOMAIN config /\ config[s.key] = env[s.name]
            /\ HasReported(s.missing) => s.key \notin DOMAIN options /\ s.name \notin DOMAIN env

\* C18 amended: the value used is the option when one is given and not
\* empty, and the environment variable otherwise; the missing error is raised
\* only when neither source has a non-empty value.  The client is built with
\* the key so chosen, the uploader gets the database ID and identity so
\* chosen, and an identity given as option is the one checked against the
\* allow-list, whatever the environment says.
C18_NonEmptyOptionWins ==
    Merged =>
        /\ \A s \in Settings :
              /\ Truthy(options, s.key) => s.key \in DOMAIN config /\ config[s.key] = options[s.key]
              /\ ~Truthy(options, s.key) /\ Truthy(env, s.name) =>
                    s.key \in DOMAIN config /\ config[s.key] = env[s.name]
              /\ HasReported(s.missing) => ~Truthy(options, s.key) /\ ~Truthy(env, s.name)
        /\ clients # <<>> =>
              clients[1] = IF Truthy(options, "notionApiKey") THEN options["notionApiKey"]
                           ELSE env["NOTION_API_KEY"]
        /\ "whoAmI" \in DOMAIN uploadArgs =>
              /\ uploadArgs["whoAmI"] = Identity
              /\ uploadArgs["databaseId"] = IF Truthy(options, "notionDatabaseId")
                                             THEN options["notionDatabaseId"]
                                             ELSE env["NOTION_DATABASE_ID"]
        /\ OthersValid /\ Truthy(options, "whoAmI") /\ options["whoAmI"] \notin {"Alli", "Justin"} =>
              HasReported(MsgUser)

\* C18 witness: the key and the identity are given both ways; the client gets
\* the option's key and Bob, the option's identity, is refused although the
\* environment names Justin
C18_Witness ==
    /\ Merged
    /\ Truthy(options, "notionApiKey") /\ Truthy(env, "NOTION_API_KEY")
    /\ options["notionApiKey"] # env["NOTION_API_KEY"]
    /\ config["notionApiKey"] = "secret-opt"
    /\ "notionDatabaseId" \notin DOMAIN options
    /\ Truthy(config, "notionDatabaseId") /\ config["notionDatabaseId"] = "db-env"
    /\ Truthy(options, "whoAmI") /\ options["whoAmI"] = "Bob"
    /\ Truthy(env, "WHO_AM_I") /\ env["WHO_AM_I"] = "Justin"
    /\ HasReported(MsgUser)

\* C19 as stated: every submitted record carries the Status "Processing Audit".
C19_StatusProcessingAudit ==
    \A i \in DOMAIN calls : calls[i].request.Status = "Processing Audit"

\* the CSV row a transaction was made from, when it carries one
HasRow(transaction) == "originalData" \in DOMAIN transaction

\* C20 as stated: the record submitted for a Chase row that has a Category
\* column carries a Category property with that row's value.
C20_CategoryCarried ==
    \A i \in DOMAIN calls :
        LET transaction == Submitted(i) IN
        /\ HasRow(transaction)
        /\ "Category" \in DOMAIN transaction["originalData"]
        /\ "Transaction Date" \in DOMAIN transaction["originalData"]
        => /\ "Category" \in DOMAIN calls[i].request
           /\ calls[i].request["Category"] = transaction["originalData"]["Category"]

\* C21: every transaction parseCSV produces carries the label the caller
\* supplied as paymentMethod, not the bank it resolved to, and the whole row
\* as originalData, the columns the mapping does not name included.
C21_LabelAndRowKept ==
    ParseCalled /\ Paired =>
        \A i \in DOMAIN results :
            /\ results[i].paymentMethod = Label
            /\ Label # bank => results[i].paymentMethod # bank
            /\ DOMAIN results[i].originalData = DOMAIN emitted[i].row
            /\ \A column \in DOMAIN emitted[i].row :
                  results[i].originalData[column] = emitted[i].row[column]

\* C21 witness: a Chase row with a Category and a Payment Method column, read
\* for the label "Chase Freedom"
C21_Witness ==
    /\ ParseCalled
    /\ Label = "Chase Freedom"
    /\ bank = "chase"
    /\ Len(results) = 1
    /\ emitted[1].row = ChaseRow
    /\ results[1].paymentMethod = "Chase Freedom"
    /\ results[1].originalData["Category"] = "Shopping"
    /\ results[1].originalData["Payment Method"] = "Apple Card"

\* the file has been opened or read, or the sink has been touched
Touched ==
    \/ opened # <<>> \/ stream # "none" \/ emitted # <<>>
    \/ clients # <<>> \/ calls # <<>> \/ uploadState # "none"

\* C22: in the pipeline the file is opened, the client constructed or a
\* create call issued only when all six checks have succeeded; while the
\* validation is still running, and after it has failed, the file is unread
\* and the sink untouched.
C22_NoIOBeforeValidation ==
    Pipeline =>
        /\ Touched => \A k \in 1..6 : ~CheckFails(k)
        /\ pc = "access" => ~Touched
        /\ (\E k \in 1..6 : CheckFails(k)) => ~Touched

\* C22 witness: only the last check fails, on a label that would resolve to a
\* bank; the run has ended with nothing opened and no client
C22_Witness ==
    /\ Validated
    /\ \A k \in 1..5 : ~CheckFails(k)
    /\ options["paymentMethod"] = "chase sapphire"
    /\ HasReported(MsgMethod)
    /\ ~Touched

InFlight == {k \in DOMAIN calls : calls[k].state = "pending"}

\* C23: at most one create call is in flight; a call is issued only when all
\* the calls before it have settled; and as long as the call for record k is
\* in flight no later record has been submitted and the upload has not
\* completed, so a call that never settles stalls the upload for good.
C23_OneCallInFlight ==
    /\ Cardinality(InFlight) <= 1
    /\ \A k \in DOMAIN calls : k < Len(calls) => calls[k].state \in {"ok", "failed"}
    /\ \A k \in InFlight :
          /\ Len(calls) = k
          /\ uploadState = "pending"
          /\ outcome.state = "pending"
          /\ pc \in {"uploading", "exited"} /\ exit.code # "0"

\* C23 witness: the first call has settled, the second is in flight, and the
\* upload is still pending
C23_Witness ==
    /\ Len(calls) = 2
    /\ calls[1].state = "ok"
    /\ InFlight = {2}
    /\ uploadState = "pending"

\* the title and the card of the record made for a transaction
TitleOf(transaction) ==
    IF "description" \in DOMAIN transaction /\ transaction["description"] # ""
    THEN transaction["description"] ELSE "Unknown Transaction"
CardOf(transaction) ==
    IF "paymentMethod" \in DOMAIN transaction /\ transaction["paymentMethod"] # ""
    THEN transaction["paymentMethod"] ELSE "Unknown Card"

\* C24: for N transactions uploadToNotion never issues more than N create
\* calls; call number i is the one for transaction number i, with the
\* databaseId it was given as parent; and when it has returned, whatever
\* calls failed, it has issued exactly N: none again, none twice, none left out.
C24_OneCallPerTransaction ==
    "transactions" \in DOMAIN uploadArgs =>
        LET n == Len(uploadArgs["transactions"]) IN
        /\ Len(calls) <= n
        /\ \A i \in DOMAIN calls :
              /\ calls[i].request.database_id = uploadArgs["databaseId"]
              /\ calls[i].request.Expense = TitleOf(Submitted(i))
              /\ calls[i].request.PaymentMethod = uploadArgs["whoAmI"] \o "'s " \o CardOf(Submitted(i))
        /\ uploadState = "fulfilled" => Len(calls) = n

\* C24 witness: two different transactions, the first call failed; exactly
\* two calls were made, in the order of the transactions
C24_Witness ==
    /\ uploadState = "fulfilled"
    /\ Len(uploadArgs["transactions"]) = 2
    /\ Len(calls) = 2
    /\ calls[1].state = "failed"
    /\ calls[1].request.Expense = "REFUND" /\ calls[1].request.database_id = "db-1"
    /\ calls[2].request.Expense = "AMAZON.COM" /\ calls[2].request.database_id = "db-1"

Unsupported(text) == Contains(text, "Unsupported payment method")

\* C26: a pipeline run that passed validation has resolved its payment method
\* to a bank: parseCSV has not rejected with "Unsupported payment method" and
\* the run reports no such error.
C26_AllowedMethodsResolve ==
    Pipeline /\ clients # <<>> =>
        /\ bank \in {"chase", "amex", "apple"}
        /\ opened = <<options["csvFilePath"]>>
        /\ ~(parsePromise.state = "rejected" /\ Unsupported(parsePromise.error))
        /\ ~(outcome.state = "rejected" /\ Unsupported(outcome.error))
        /\ \A j \in DOMAIN log : ~Unsupported(log[j].text)

\* C26 witness: the Apple Card, the one allowed method of its bank, has been
\* parsed to the end in a validated run
C26_Witness ==
    /\ Pipeline /\ clients # <<>>
    /\ options["paymentMethod"] = "Apple Card"
    /\ bank = "apple"
    /\ parsePromise.state = "resolved"
    /\ Len(results) = 1

\* what the first 'end' or 'error' of the stream settles the promise to
FirstSignal ==
    IF signals[1] = "end" THEN Resolved ELSE Rejected(CsvErrorMessage)

\* C27: once the stream has signalled 'end' or 'error', the parse promise is
\* settled as the first of these signals says and stays so: an 'error' after
\* the 'end', or an 'end' after an 'error', changes neither the promise, nor
\* the transactions it resolved with, nor what the caller of parseCSV got.
C27_SettlesOnce ==
    signals # <<>> =>
        /\ parsePromise = FirstSignal
        /\ Len(results) = Len(emitted)
        /\ entry = "parseCSV" /\ pc = "returned" => outcome = FirstSignal
        /\ Pipeline /\ signals[1] = "end" =>
              ~(outcome.state = "rejected" /\ outcome.error = CsvErrorMessage)
        /\ Pipeline /\ signals[1] = "error" => uploadState = "none" /\ calls = <<>>

\* C27 witness: 'end' after one row, then a late 'error'; the caller got the
\* one transaction
C27_Witness ==
    /\ entry = "parseCSV" /\ pc = "returned"
    /\ signals = <<"end", "error">>
    /\ outcome = Resolved
    /\ parsePromise = Resolved
    /\ Len(results) = 1

\* C28: when the upload loop of a pipeline run has completed, the last line
\* printed reports the number of parsed transactions as uploaded, whatever
\* the number of create calls that were fulfilled.
C28_ReportsParsedCount ==
    Pipeline /\ uploadState = "fulfilled" =>
        /\ ~DryRun
        /\ log[Len(log)] = [to |-> "log",
                            text |-> "Successfully uploaded " \o ToString(Len(results))
                                     \o " transactions to Notion!"]
        /\ Len(results) = Len(calls)

\* C28 witness: two transactions parsed, no create call fulfilled, and "2
\* transactions" reported
C28_Witness ==
    /\ entry = "validateAndUploadTransactions"
    /\ uploadState = "fulfilled"
    /\ Len(results) = 2
    /\ \A k \in DOMAIN calls : calls[k].state = "failed"
    /\ log[Len(log)].text = "Successfully uploaded 2 transactions to Notion!"

\* C29 as stated: the API key goes to the client and nowhere else, so that
\* the lines a run prints are the same whatever the (non-empty) key: no line
\* printed carries the key.
C29_KeyNotPrinted ==
    Pipeline /\ Truthy(config, "notionApiKey") =>
        \A j \in DOMAIN log : ~Contains(log[j].text, config["notionApiKey"])

\* C30: in a pipeline run every record is titled with the description the
\* parser produced, which is never empty, so the uploader's own title
\* "Unknown Transaction" is not used and a row without a description is
\* titled "Unknown"; its card is the validated payment method of the run, so
\* "Unknown Card" is not used either.
C30_UploaderDefaultsUnused ==
    Pipeline =>
        \A i \in DOMAIN calls :
            /\ results[i].description # ""
            /\ calls[i].request.Expense = results[i].description
            /\ calls[i].request.Expense # "Unknown Transaction"
            /\ ~Truthy(emitted[i].row, MappedColumns.description) => calls[i].request.Expense = "Unknown"
            /\ results[i].paymentMethod = options["paymentMethod"]
            /\ options["paymentMethod"] \in
                  {"Amex Platinum", "Apple Card", "Chase Freedom", "Chase Sapphire", "Chase Southwest"}
            /\ calls[i].request.PaymentMethod = Identity \o "'s " \o options["paymentMethod"]
            /\ ~Contains(calls[i].request.PaymentMethod, "Unknown Card")

\* C30 witness: a row without a Merchant column, parsed for the Apple Card, is
\* uploaded with the title "Unknown"
C30_Witness ==
    /\ Pipeline
    /\ Len(calls) = 1
    /\ "Merchant" \notin DOMAIN emitted[1].row
    /\ calls[1].request.Expense = "Unknown"
    /\ calls[1].request.PaymentMethod = "Alli's Apple Card"

Finished == pc \in {"returned", "exited"}

\* C25: when the stream comes to its 'end' or 'error' and every create call
\* settles, a pipeline run that passed validation finishes: the parse promise
\* has settled and no upload is left pending.  (A read failure of the file is
\* neither 'end' nor 'error' of the row iterator: it ends the process.)
C25_ValidatedRunFinishes ==
    (Pipeline /\ clients # <<>>) ~>
        /\ Finished
        /\ \/ stream = "crashed"
           \/ parsePromise.state \in {"resolved", "rejected"} /\ uploadState # "pending"

\* C25 witness: the command-line script has parsed two rows, had both create
\* calls answered and returned
C25_Witness ==
    /\ entry = "cli"
    /\ clients # <<>>
    /\ pc = "returned"
    /\ parsePromise.state = "resolved"
    /\ Len(calls) = 2
    /\ uploadState = "fulfilled"
====
